---- MODULE Spec2Model ----
(***************************************************************************)
(* Markdown-to-HTML/PDF batch converters: convert_html_only.py,            *)
(* convert_to_pdf.py and convert_to_pdf_html.py.                           *)
(*                                                                         *)
(* Text (markdown, HTML, paths) is a sequence of one-character strings, so *)
(* that the regular-expression rules, str.replace, str.split and the       *)
(* ordering of paths are computed character by character as Python does.   *)
(***************************************************************************)
EXTENDS Integers, Sequences, FiniteSets, TLC

VARIABLES
    md,          \* the markdown text given to simple_markdown_to_html, with its shape
    html,        \* the fragment simple_markdown_to_html returned
    md_pc        \* "input" before the call, "output" after it

VARIABLES
    wrap_in,     \* the template, fragment and title given to the Document Wrapper
    wrapped,     \* what template.format(...) gave: the document, or the exception
    wrap_pc      \* "input" before the call, "output" after it

VARIABLES
    tree,          \* the paths of the markdown files under src/part0 .. src/part6
    unreadable,    \* the paths among them that open() or read() fails on
    out_fs,        \* the HTML files written so far: path -> document
    pc,            \* where the running main() or call stands
    all_files,     \* main's all_files, once collected and sorted
    idx,           \* position of the conversion loop in all_files
    success_count, \* main's success_count
    total_count,   \* main's total_count
    calls,         \* the calls of convert_md_file_to_html so far, with their outcomes
    tool_log       \* the runs of the external-tool chains so far, with their outcomes

VARIABLES
    pdf_fs,           \* the files in pdf_output/: name -> what the file holds
    html_files,       \* convert_to_pdf_html.main's html_files
    steps,            \* the per-file conversion steps of a PDF pipeline so far
    combined_content  \* create_combined_html's full_combined_content, once joined

md_vars == <<md, html, md_pc>>
wrap_vars == <<wrap_in, wrapped, wrap_pc>>
fs_vars == <<tree, unreadable, out_fs>>
main_vars == <<pc, all_files, idx, success_count, total_count>>
pdf_vars == <<pdf_fs, html_files, steps>>
html_vars == <<tree, unreadable, out_fs, pc, all_files, idx, success_count, total_count, calls>>

vars == <<md, html, md_pc, wrap_in, wrapped, wrap_pc,
          tree, unreadable, out_fs, pc, all_files, idx, success_count, total_count, calls,
          tool_log, pdf_fs, html_files, steps, combined_content>>

NL == "\n"

\* the grave accent U+0060 (a string holding that character does not lex)
BT == "grave"

(***************************************************************************)
(* str helpers                                                             *)
(***************************************************************************)
StartsWith(s, p) == Len(s) >= Len(p) /\ SubSeq(s, 1, Len(p)) = p

EndsWith(s, p) == Len(s) >= Len(p) /\ SubSeq(s, Len(s) - Len(p) + 1, Len(s)) = p

Drop(s, n) == SubSeq(s, n + 1, Len(s))

\* str.find from position i (1-based); 0 when p does not occur
Find(s, p, i) ==
    LET c == {j \in i..(Len(s) - Len(p) + 1) : SubSeq(s, j, j + Len(p) - 1) = p}
    IN  IF c = {} THEN 0 ELSE CHOOSE j \in c : \A k \in c : j <= k

Contains(s, p) == Find(s, p, 1) # 0

\* number of (possibly overlapping) occurrences of p in s
Count(s, p) ==
    Cardinality({j \in 1..(Len(s) - Len(p) + 1) : SubSeq(s, j, j + Len(p) - 1) = p})

RECURSIVE Split(_, _)
\* str.split(sep) with a non-empty separator
Split(s, sep) ==
    LET j == Find(s, sep, 1)
    IN  IF j = 0 THEN <<s>>
        ELSE <<SubSeq(s, 1, j - 1)>> \o Split(Drop(s, j + Len(sep) - 1), sep)

RECURSIVE Join(_, _)
\* sep.join(parts)
Join(parts, sep) ==
    IF parts = <<>> THEN <<>>
    ELSE IF Len(parts) = 1 THEN parts[1]
    ELSE parts[1] \o sep \o Join(Tail(parts), sep)

RECURSIVE Replace(_, _, _)
\* str.replace(old, new): every non-overlapping occurrence, left to right
Replace(s, old, new) ==
    LET j == Find(s, old, 1)
    IN  IF j = 0 THEN s
        ELSE SubSeq(s, 1, j - 1) \o new \o Replace(Drop(s, j + Len(old) - 1), old, new)

Whitespace == {" ", NL, "\t", "\r"}

RECURSIVE LStrip(_)
LStrip(s) == IF s # <<>> /\ Head(s) \in Whitespace THEN LStrip(Tail(s)) ELSE s

RECURSIVE RStrip(_)
RStrip(s) ==
    IF s # <<>> /\ s[Len(s)] \in Whitespace THEN RStrip(SubSeq(s, 1, Len(s) - 1)) ELSE s

\* str.strip()
Strip(s) == RStrip(LStrip(s))

RECURSIVE Repeat(_, _)
Repeat(c, n) == IF n = 0 THEN <<>> ELSE <<c>> \o Repeat(c, n - 1)

(***************************************************************************)
(* Markup produced by the transformer                                      *)
(***************************************************************************)
Digit(k) == CASE k = 0 -> "0" [] k = 1 -> "1" [] k = 2 -> "2" [] k = 3 -> "3"
              [] k = 4 -> "4" [] k = 5 -> "5" [] k = 6 -> "6" [] k = 7 -> "7"
              [] k = 8 -> "8" [] k = 9 -> "9"

HOpen(k)  == <<"<", "h", Digit(k), ">">>
HClose(k) == <<"<", "/", "h", Digit(k), ">">>
StrongOpen  == <<"<", "s", "t", "r", "o", "n", "g", ">">>
StrongClose == <<"<", "/", "s", "t", "r", "o", "n", "g", ">">>
EmOpen  == <<"<", "e", "m", ">">>
EmClose == <<"<", "/", "e", "m", ">">>
CodeOpen  == <<"<", "c", "o", "d", "e", ">">>
CodeClose == <<"<", "/", "c", "o", "d", "e", ">">>
PreCodeOpen  == <<"<", "p", "r", "e", ">">> \o CodeOpen
PreCodeClose == CodeClose \o <<"<", "/", "p", "r", "e", ">">>
QuoteOpen  == <<"<", "b", "l", "o", "c", "k", "q", "u", "o", "t", "e", ">">>
QuoteClose == <<"<", "/", "b", "l", "o", "c", "k", "q", "u", "o", "t", "e", ">">>
POpen  == <<"<", "p", ">">>
PClose == <<"<", "/", "p", ">">>

(***************************************************************************)
(* re.sub for the two pattern shapes of simple_markdown_to_html            *)
(***************************************************************************)
\* one line under ^prefix(.*?)$ : the rest of the line is group 1
LineRule(line, prefix, open, close) ==
    IF StartsWith(line, prefix) THEN open \o Drop(line, Len(prefix)) \o close ELSE line

RECURSIVE MapLines(_, _, _, _)
MapLines(lines, prefix, open, close) ==
    IF lines = <<>> THEN <<>>
    ELSE <<LineRule(Head(lines), prefix, open, close)>>
         \o MapLines(Tail(lines), prefix, open, close)

\* re.sub(r'^prefix(.*?)$', open \1 close, s, flags=re.MULTILINE):
\* ^ and $ anchor at every line, and . does not match a newline
SubLine(s, prefix, open, close) ==
    Join(MapLines(Split(s, <<NL>>), prefix, open, close), <<NL>>)

\* position in rest of the delimiter closing a span opened just before rest, or 0;
\* (.*?) takes the nearest closing delimiter, and without DOTALL cannot cross a newline
FindClose(rest, d, dotall) ==
    LET j == Find(rest, d, 1)
    IN  IF j = 0 THEN 0
        ELSE IF dotall \/ ~Contains(SubSeq(rest, 1, j - 1), <<NL>>) THEN j
        ELSE 0

\* the positions where the pattern d(.*?)d matches
SpanStarts(s, d, dotall) ==
    {i \in 1..(Len(s) - Len(d) + 1) :
        /\ SubSeq(s, i, i + Len(d) - 1) = d
        /\ FindClose(Drop(s, i + Len(d) - 1), d, dotall) # 0}

RECURSIVE SubSpan(_, _, _, _, _)
\* re.sub(r'd(.*?)d', open \1 close, s [, flags=re.DOTALL]): leftmost
\* non-overlapping matches, scanning from the left
SubSpan(s, d, dotall, open, close) ==
    LET starts == SpanStarts(s, d, dotall)
    IN  IF starts = {} THEN s
        ELSE LET i    == CHOOSE k \in starts : \A m \in starts : k <= m
                 rest == Drop(s, i + Len(d) - 1)
                 j    == FindClose(rest, d, dotall)
             IN  SubSeq(s, 1, i - 1) \o open \o SubSeq(rest, 1, j - 1) \o close
                 \o SubSpan(Drop(rest, j + Len(d) - 1), d, dotall, open, close)

\* as Headers, with the rule repeated for a fifth and a sixth level
HeadersSixLevels(s) ==
    LET h1 == SubLine(s,  <<"#", " ">>, HOpen(1), HClose(1))
        h2 == SubLine(h1, <<"#", "#", " ">>, HOpen(2), HClose(2))
        h3 == SubLine(h2, <<"#", "#", "#", " ">>, HOpen(3), HClose(3))
        h4 == SubLine(h3, <<"#", "#", "#", "#", " ">>, HOpen(4), HClose(4))
        h5 == SubLine(h4, <<"#", "#", "#", "#", "#", " ">>, HOpen(5), HClose(5))
    IN  SubLine(h5, <<"#", "#", "#", "#", "#", "#", " ">>, HOpen(6), HClose(6))

Headers(s) ==
    LET h1 == SubLine(s,  <<"#", " ">>, HOpen(1), HClose(1))
        h2 == SubLine(h1, <<"#", "#", " ">>, HOpen(2), HClose(2))
        h3 == SubLine(h2, <<"#", "#", "#", " ">>, HOpen(3), HClose(3))
    IN  SubLine(h3, <<"#", "#", "#", "#", " ">>, HOpen(4), HClose(4))

Bold(s) == SubSpan(s, <<"*", "*">>, FALSE, StrongOpen, StrongClose)

Italic(s) == SubSpan(s, <<"*">>, FALSE, EmOpen, EmClose)

\* the two emphasis rules in the opposite order
ItalicBold(s) == Bold(Italic(s))

BoldItalic(s) == Italic(Bold(s))

CodeBlocks(s) == SubSpan(s, <<BT, BT, BT>>, TRUE, PreCodeOpen, PreCodeClose)

InlineCode(s) == SubSpan(s, <<BT>>, FALSE, CodeOpen, CodeClose)

Blockquotes(s) == SubLine(s, <<">", " ">>, QuoteOpen, QuoteClose)

IsBlockElement(para) ==
    \/ StartsWith(para, <<"<", "h">>)
    \/ StartsWith(para, <<"<", "b", "l", "o", "c", "k">>)
    \/ StartsWith(para, <<"<", "p", "r", "e">>)
    \/ StartsWith(para, <<"<", "u", "l">>)
    \/ StartsWith(para, <<"<", "o", "l">>)

RECURSIVE WrapParagraphs(_)
WrapParagraphs(paragraphs) ==
    IF paragraphs = <<>> THEN <<>>
    ELSE LET para == Strip(Head(paragraphs))
         IN  (IF para = <<>> THEN <<>>
              ELSE IF IsBlockElement(para) THEN <<para>>
              ELSE <<POpen \o para \o PClose>>)
             \o WrapParagraphs(Tail(paragraphs))

Paragraphs(s) == Join(WrapParagraphs(Split(s, <<NL, NL>>)), <<NL>>)

simple_markdown_to_html(md_content) ==
    Paragraphs(Blockquotes(InlineCode(CodeBlocks(BoldItalic(Headers(md_content))))))

(***************************************************************************)
(* The Document Wrapper: create_html_template() and str.format             *)
(*                                                                         *)
(* A template is a sequence of tokens: "{", "}" and ":" are the characters *)
(* str.format reads, every other token is a run of text without them.  The *)
(* style sheets are cut after their first rules; nothing else is changed.  *)
(* The tags the Combiner searches for are tokens of their own.             *)
(***************************************************************************)
\* convert_html_only.create_html_template
HtmlOnlyTemplate ==
    << "<!DOCTYPE html><html><head><title>", "{", "title", "}", "</title><style>",
       "@media print ", "{",
           " @page ", "{", " size", ":", " A4; margin", ":", " 2cm 1.5cm; ", "}",
           " body ", "{", " font-size", ":", " 11pt; ", "}",
       "}",
       " .page-break ", "{", " page-break-before", ":", " always; ", "}",
       "</style></head>", "<body>", "{", "content", "}", "</body>", "</html>" >>

\* convert_to_pdf_html.create_html_template
PdfHtmlTemplate ==
    << "<!DOCTYPE html><html><head><title>", "{", "title", "}", "</title><style>",
       "@page ", "{", " size", ":", " A4; margin", ":", " 2cm 1.5cm; ", "}",
       " body ", "{", " font-size", ":", " 12pt; ", "}",
       "</style></head>", "<body>", "<div class=container>", "{", "content", "}",
       "</div>", "</body>", "</html>" >>

\* the template with the title and content regions replaced, which is what the
\* call is written to produce
Filled(template, content, title) ==
    LET t == Find(template, <<"{", "title", "}">>, 1)
        c == Find(template, <<"{", "content", "}">>, 1)
    IN  SubSeq(template, 1, t - 1) \o title \o SubSeq(template, t + 3, c - 1)
        \o content \o SubSeq(template, c + 3, Len(template))

\* the end of a replacement field's name: the first "}", ":" or "{" at or after j
\* (Len + 1 when the template ends first)
NameEnd(tpl, j) ==
    LET c == {m \in j..Len(tpl) : tpl[m] \in {"}", ":", "{"}}
    IN  IF c = {} THEN Len(tpl) + 1 ELSE CHOOSE m \in c : \A n \in c : m <= n

RECURSIVE SpecEnd(_, _, _)
\* the "}" closing a format spec that starts at j with count unclosed "{"
\* (0 when none closes it)
SpecEnd(tpl, j, count) ==
    IF j > Len(tpl) THEN 0
    ELSE IF tpl[j] = "{" THEN SpecEnd(tpl, j + 1, count + 1)
    ELSE IF tpl[j] = "}" THEN (IF count = 1 THEN j ELSE SpecEnd(tpl, j + 1, count - 1))
    ELSE SpecEnd(tpl, j + 1, count)

RECURSIVE FormatFrom(_, _, _, _)
\* str.format from token i on, acc being the text produced so far
FormatFrom(tpl, i, kwargs, acc) ==
    IF i > Len(tpl) THEN [exc |-> "none", text |-> acc]
    ELSE IF tpl[i] = "{"
    THEN IF i < Len(tpl) /\ tpl[i + 1] = "{"
         THEN FormatFrom(tpl, i + 2, kwargs, acc \o <<"{">>)
         ELSE LET e    == NameEnd(tpl, i + 1)
                  name == SubSeq(tpl, i + 1, e - 1)
              IN  IF e > Len(tpl)
                  THEN [exc |-> "ValueError", text |-> <<>>]   \* expected '}' before end of string
                  ELSE IF tpl[e] = "{"
                  THEN [exc |-> "ValueError", text |-> <<>>]   \* unexpected '{' in field name
                  ELSE LET close == IF tpl[e] = "}" THEN e ELSE SpecEnd(tpl, e + 1, 1)
                       IN  IF close = 0
                           THEN [exc |-> "ValueError", text |-> <<>>]  \* unmatched '{' in format spec
                           ELSE IF Len(name) # 1
                           THEN [exc |-> (IF name = <<>> THEN "IndexError" ELSE "KeyError"),
                                 text |-> <<>>]
                           ELSE IF name[1] \notin DOMAIN kwargs
                           THEN [exc |-> "KeyError", text |-> <<>>]
                           ELSE IF close # e + 1 /\ tpl[e] = ":"
                           THEN [exc |-> "ValueError", text |-> <<>>]  \* invalid format specifier
                           ELSE FormatFrom(tpl, close + 1, kwargs, acc \o kwargs[name[1]])
    ELSE IF tpl[i] = "}"
    THEN IF i < Len(tpl) /\ tpl[i + 1] = "}"
         THEN FormatFrom(tpl, i + 2, kwargs, acc \o <<"}">>)
         ELSE [exc |-> "ValueError", text |-> <<>>]            \* single '}' encountered
    ELSE FormatFrom(tpl, i + 1, kwargs, acc \o <<tpl[i]>>)

\* template.format(content=content, title=title)
Format(template, content, title) ==
    FormatFrom(template, 1, [content |-> content, title |-> title], <<>>)

(***************************************************************************)
(* Paths and the File Collector                                            *)
(***************************************************************************)
NumParts == 7    \* range(7): part0 .. part6

\* the characters of the modelled paths in code-point order
CodePoints ==
    << " ", ".", "/", "0", "1", "2", "3", "4", "5", "6", "7", "8", "9",
       "_", "a", "b", "c", "d", "e", "f", "h", "i", "l", "m", "n", "o", "p", "r",
       "s", "t", "u" >>

CodePoint(c) == CHOOSE i \in 1..Len(CodePoints) : CodePoints[i] = c

RECURSIVE StrLess(_, _)
\* x < y on str: by code point, a proper prefix first
StrLess(x, y) ==
    IF y = <<>> THEN FALSE
    ELSE IF x = <<>> THEN TRUE
    ELSE IF Head(x) = Head(y) THEN StrLess(Tail(x), Tail(y))
    ELSE CodePoint(Head(x)) < CodePoint(Head(y))

SrcDir  == <<"s", "r", "c", "/">>
HtmlDir == <<"h", "t", "m", "l", "_", "o", "u", "t", "p", "u", "t", "/">>
MdExt   == <<".", "m", "d">>
HtmlExt == <<".", "h", "t", "m", "l">>
SlashPart == <<"/", "p", "a", "r", "t">>

\* f"src/part{i}/" + name + ".md" and f"html_output/part{i}/" + name + ".html"
MdPath(i, name)   == SrcDir \o <<"p", "a", "r", "t", Digit(i), "/">> \o name \o MdExt
HtmlPath(i, name) == HtmlDir \o <<"p", "a", "r", "t", Digit(i), "/">> \o name \o HtmlExt

DigitValue(c) == CHOOSE k \in 0..9 : Digit(k) = c

RECURSIVE ToInt(_, _)
\* int(s) for a string of decimal digits, acc being the value read so far
ToInt(s, acc) == IF s = <<>> THEN acc ELSE ToInt(Tail(s), 10 * acc + DigitValue(Head(s)))

\* int(x.split('/part')[1].split('/')[0])
PartIndex(x) == ToInt(Split(Split(x, SlashPart)[2], <<"/">>)[1], 0)

\* the sort key (int(...), x) compared as Python compares tuples
KeyLess(x, y) ==
    \/ PartIndex(x) < PartIndex(y)
    \/ PartIndex(x) = PartIndex(y) /\ StrLess(x, y)

RECURSIVE Insert(_, _)
\* x put into the sorted list after every element that is not greater
Insert(sorted, x) ==
    IF sorted = <<>> THEN <<x>>
    ELSE IF KeyLess(x, Head(sorted)) THEN <<x>> \o sorted
    ELSE <<Head(sorted)>> \o Insert(Tail(sorted), x)

\* the list left in the order the glob calls returned it
GlobOrder(files) == files

RECURSIVE SortFiles(_)
\* list.sort(key=lambda x: (int(x.split('/part')[1].split('/')[0]), x))
SortFiles(files) ==
    IF files = <<>> THEN <<>>
    ELSE Insert(SortFiles(SubSeq(files, 1, Len(files) - 1)), files[Len(files)])

\* glob.glob(f"{dir}part{i}/*{ext}"): the files of partition i, in an order the
\* directory listing decides
InPart(paths, i) == {x \in paths : PartIndex(x) = i}

Range(seq) == {seq[i] : i \in 1..Len(seq)}

Orders(S) == {q \in [1..Cardinality(S) -> S] : Range(q) = S}

RECURSIVE GlobAll(_, _)
\* the lists that the loop "for i in range(7): all_files.extend(glob.glob(...))"
\* can build from partition i on
GlobAll(paths, i) ==
    IF i = NumParts THEN {<<>>}
    ELSE {q \o rest : q \in Orders(InPart(paths, i)), rest \in GlobAll(paths, i + 1)}

\* os.path.basename
BaseName(path) == LET parts == Split(path, <<"/">>) IN parts[Len(parts)]

(***************************************************************************)
(* The Single-File Converter of convert_html_only.py                       *)
(***************************************************************************)
None == <<>>    \* None (as falsy as the empty path, which no call returns)

\* the text of the markdown file at a path
ContentOf(md_file) == <<"#", " ">> \o Replace(BaseName(md_file), MdExt, <<>>)

\* os.path.basename(md_file).replace('.md', '').replace('_', ' ')
TitleOf(md_file) == Replace(Replace(BaseName(md_file), MdExt, <<>>), <<"_">>, <<" ">>)

\* md_file.replace('.md', '.html').replace('src/', 'html_output/')
OutputPath(md_file) == Replace(Replace(md_file, MdExt, HtmlExt), SrcDir, HtmlDir)

\* open(path, 'w') then write(doc)
WriteFile(fs, path, doc) == [x \in DOMAIN fs \cup {path} |-> IF x = path THEN doc ELSE fs[x]]

\* a converter that opens its output for appending and writes the fragment to
\* it before the template is filled
convert_appending(src, bad, out, md_file) ==
    IF md_file \notin src
    THEN [result |-> None, caught |-> "FileNotFoundError", out |-> out]
    ELSE IF md_file \in bad
    THEN [result |-> None, caught |-> "OSError", out |-> out]
    ELSE LET html_content == simple_markdown_to_html(ContentOf(md_file))
             full_html    == Format(HtmlOnlyTemplate, html_content, TitleOf(md_file))
             html_file    == OutputPath(md_file)
             before       == IF html_file \in DOMAIN out THEN out[html_file] ELSE <<>>
             begun        == WriteFile(out, html_file, before \o html_content)
         IN  IF full_html.exc # "none"
             THEN [result |-> None, caught |-> full_html.exc, out |-> begun]
             ELSE [result |-> html_file, caught |-> "none",
                   out |-> WriteFile(begun, html_file, begun[html_file] \o full_html.text)]

\* convert_md_file_to_html(md_file) on the files (src, bad, out): what it returns,
\* the exception its handler caught ("none" if none) and html_output/ afterwards
convert_md_file_to_html(src, bad, out, md_file) ==
    IF md_file \notin src
    THEN [result |-> None, caught |-> "FileNotFoundError", out |-> out]
    ELSE IF md_file \in bad
    THEN [result |-> None, caught |-> "OSError", out |-> out]
    ELSE LET html_content == simple_markdown_to_html(ContentOf(md_file))
             full_html    == Format(HtmlOnlyTemplate, html_content, TitleOf(md_file))
             html_file    == OutputPath(md_file)
         IN  IF full_html.exc # "none"
             THEN [result |-> None, caught |-> full_html.exc, out |-> out]
             ELSE [result |-> html_file, caught |-> "none",
                   out |-> WriteFile(out, html_file, full_html.text)]

(***************************************************************************)
(* The Combiner of convert_html_only.py                                    *)
(***************************************************************************)
CombinedFile ==
    HtmlDir \o <<"c", "o", "m", "b", "i", "n", "e", "d", "_", "a", "l", "l", "_",
                 "p", "a", "r", "t", "s">> \o HtmlExt

PageBreak == <<"<div style=page-break-after>", "</div>">>

TitlePage == <<"<h1>", "book title", "</h1>", "<h2>", "subtitle", "</h2>">> \o PageBreak

CombinedTitle == <<"book title - complete">>

\* the files glob finds under html_output/part0 .. part6, sorted
CombinerFiles(out) ==
    LET found == {x \in DOMAIN out : StartsWith(x, HtmlDir \o <<"p", "a", "r", "t">>)
                                     /\ EndsWith(x, HtmlExt)}
    IN  SortFiles(CHOOSE q \in Orders(found) : TRUE)

\* os.path.basename(html_file).replace('.html', '')
SectionKey(html_file) == Replace(BaseName(html_file), HtmlExt, <<>>)

RECURSIVE TocEntries(_)
TocEntries(files) ==
    IF files = <<>> THEN <<>>
    ELSE <<"<li><a href=#">> \o SectionKey(Head(files)) \o <<">">>
         \o Replace(SectionKey(Head(files)), <<"_">>, <<" ">>) \o <<"</a></li>">>
         \o TocEntries(Tail(files))

Toc(files) == <<"<div class=toc>", "<ul>">> \o TocEntries(files) \o <<"</ul>", "</div>">>

\* re.search(r'<body>(.*?)</body>', content, re.DOTALL): where group 1 lies,
\* <<0, 0>> when there is no match
BodyMatch(content) ==
    LET starts == {b \in 1..Len(content) :
                      content[b] = "<body>" /\ Find(content, <<"</body>">>, b + 1) # 0}
    IN  IF starts = {} THEN <<0, 0>>
        ELSE LET b == CHOOSE k \in starts : \A m \in starts : k <= m
             IN  <<b + 1, Find(content, <<"</body>">>, b + 1) - 1>>

RECURSIVE StripContainer(_)
\* re.sub(r'<div class="container">(.*?)</div>', r'\1', body, flags=re.DOTALL)
StripContainer(body) ==
    LET starts == {b \in 1..Len(body) :
                      body[b] = "<div class=container>" /\ Find(body, <<"</div>">>, b + 1) # 0}
    IN  IF starts = {} THEN body
        ELSE LET b == CHOOSE k \in starts : \A m \in starts : k <= m
                 e == Find(body, <<"</div>">>, b + 1)
             IN  SubSeq(body, 1, b - 1) \o SubSeq(body, b + 1, e - 1)
                 \o StripContainer(Drop(body, e))

RECURSIVE Sections(_, _, _)
\* the items the second loop appends to combined_content, each followed by the
\* newline that '\n'.join puts between items; a file in bad cannot be read, and
\* the handler of the loop body passes over it
Sections(out, bad, files) ==
    IF files = <<>> THEN <<>>
    ELSE LET content == out[Head(files)]
             m       == BodyMatch(content)
         IN  (IF Head(files) \in bad \/ m = <<0, 0>> THEN <<>>
              ELSE <<NL, "<div id=">> \o SectionKey(Head(files)) \o <<">", NL>>
                   \o StripContainer(SubSeq(content, m[1], m[2]))
                   \o <<NL, "</div>", NL>> \o PageBreak)
             \o Sections(out, bad, Tail(files))

\* create_combined_html() on html_output/, the files in bad being unreadable: the
\* exception that leaves it ("none" if it returns), what it returns,
\* html_output/ afterwards and its full_combined_content
create_combined_html(out, bad) ==
    LET files    == CombinerFiles(out)
        content  == TitlePage \o <<NL>> \o Toc(files) \o Sections(out, bad, files)
        combined == Format(HtmlOnlyTemplate, content, CombinedTitle)
    IN  IF combined.exc # "none"
        THEN [raised |-> combined.exc, result |-> None, out |-> out, content |-> content]
        ELSE [raised |-> "none", result |-> CombinedFile,
              out |-> WriteFile(out, CombinedFile, combined.text), content |-> content]

(***************************************************************************)
(* The External Tool Invoker                                               *)
(*                                                                         *)
(* subprocess.run either returns with exit status zero or non-zero, or     *)
(* raises: FileNotFoundError when the program is missing, or another       *)
(* exception.                                                              *)
(***************************************************************************)
Outcomes == {"zero", "nonzero", "FileNotFoundError", "Exception"}

Exited(o) == o \in {"zero", "nonzero"}

Attempt(cmd, o) == [cmd |-> cmd, outcome |-> o]

\* convert_html_to_pdf with the status of the fallback not looked at
convert_html_to_pdf_any_status(wk, wp) ==
    IF wk = "zero"
    THEN [success |-> TRUE, raised |-> FALSE, attempts |-> <<Attempt("wkhtmltopdf", wk)>>]
    ELSE IF wk = "nonzero"
    THEN [success |-> Exited(wp), raised |-> FALSE,
          attempts |-> <<Attempt("wkhtmltopdf", wk), Attempt("weasyprint", wp)>>]
    ELSE [success |-> FALSE, raised |-> FALSE, attempts |-> <<Attempt("wkhtmltopdf", wk)>>]

\* convert_html_to_pdf with weasyprint tried after any failure of wkhtmltopdf
convert_html_to_pdf_retry_missing(wk, wp) ==
    IF wk = "zero"
    THEN [success |-> TRUE, raised |-> FALSE, attempts |-> <<Attempt("wkhtmltopdf", wk)>>]
    ELSE [success |-> (wp = "zero"), raised |-> FALSE,
          attempts |-> <<Attempt("wkhtmltopdf", wk), Attempt("weasyprint", wp)>>]

\* convert_to_pdf_html.convert_html_to_pdf, wk and wp being what running
\* wkhtmltopdf and weasyprint gives
convert_html_to_pdf(wk, wp) ==
    IF wk = "zero"
    THEN [success |-> TRUE, raised |-> FALSE, attempts |-> <<Attempt("wkhtmltopdf", wk)>>]
    ELSE IF wk = "nonzero"
    THEN [success |-> (wp = "zero"), raised |-> FALSE,
          attempts |-> <<Attempt("wkhtmltopdf", wk), Attempt("weasyprint", wp)>>]
    ELSE [success |-> FALSE, raised |-> FALSE, attempts |-> <<Attempt("wkhtmltopdf", wk)>>]

\* convert_to_pdf.convert_md_to_pdf_wkhtmltopdf, o being what running pandoc
\* with --pdf-engine=wkhtmltopdf gives
convert_md_to_pdf_wkhtmltopdf(o) == o = "zero"

\* convert_to_pdf.convert_md_to_pdf_basic, o being what running pandoc gives
convert_md_to_pdf_basic(o) == o = "zero"

\* convert_to_pdf.main: the two converters tried on one file
convert_md_to_pdf(o1, o2) ==
    IF convert_md_to_pdf_wkhtmltopdf(o1)
    THEN [success |-> TRUE, raised |-> FALSE,
          attempts |-> <<Attempt("pandoc+wkhtmltopdf", o1)>>]
    ELSE [success |-> convert_md_to_pdf_basic(o2), raised |-> FALSE,
          attempts |-> <<Attempt("pandoc+wkhtmltopdf", o1), Attempt("pandoc", o2)>>]

(***************************************************************************)
(* The PDF output directory and the merge of convert_to_pdf.py and         *)
(* convert_to_pdf_html.py                                                  *)
(*                                                                         *)
(* A PDF file is modelled by the sources whose pages it holds and, for a   *)
(* merged file, by the list of files the merger was given.                 *)
(***************************************************************************)
PdfDir == <<"p", "d", "f", "_", "o", "u", "t", "p", "u", "t", "/">>
PdfExt == <<".", "p", "d", "f">>

CombinedPdfName ==
    <<"c", "o", "m", "b", "i", "n", "e", "d", "_", "a", "l", "l", "_",
      "p", "a", "r", "t", "s">> \o PdfExt

\* os.path.join(output_dir, f)
PdfJoin(f) == PdfDir \o f

\* os.path.join(output_dir, "combined_all_parts.pdf")
CombinedPdf == PdfJoin(CombinedPdfName)

\* os.path.join(output_dir, os.path.basename(md_file).replace('.md', '.pdf'))
PdfFileOfMd(md_file) == PdfJoin(Replace(BaseName(md_file), MdExt, PdfExt))

\* os.path.join(output_dir, os.path.basename(html_file).replace('.html', '.pdf'))
PdfFileOfHtml(html_file) == PdfJoin(Replace(BaseName(html_file), HtmlExt, PdfExt))

\* the file an external command leaves when it renders source
RenderedPdf(source) == [pages |-> <<source>>, inputs |-> <<>>]

\* os.listdir(output_dir)
ListDir(fs) == {BaseName(x) : x \in DOMAIN fs}

RECURSIVE SortStr(_)
\* list.sort() on a list of str
SortStr(files) ==
    IF files = <<>> THEN <<>>
    ELSE LET least == CHOOSE x \in Range(files) : \A y \in Range(files) : ~StrLess(y, x)
         IN  <<least>> \o SortStr(SelectSeq(files, LAMBDA y : y # least))

\* the whole listing joined and sorted, the merged file of an earlier run included
MergeInputsUnfiltered(fs) ==
    SortStr(CHOOSE q \in Orders({PdfJoin(f) : f \in ListDir(fs)}) : TRUE)

\* pdf_files: the listing filtered and joined, then sorted
MergeInputs(fs) ==
    LET listed == {PdfJoin(f) : f \in {g \in ListDir(fs) : EndsWith(g, PdfExt)
                                                          /\ g # CombinedPdfName}}
    IN  SortStr(CHOOSE q \in Orders(listed) : TRUE)

RECURSIVE Appended(_, _)
\* the pages merger.append collects, file after file
Appended(fs, pdf_files) ==
    IF pdf_files = <<>> THEN <<>>
    ELSE fs[Head(pdf_files)].pages \o Appended(fs, Tail(pdf_files))

\* what the try block of the merge can end in: it writes the merged file, or
\* PyPDF2 is missing, or the merger raises
MergeOutcomes == {"written", "ImportError", "Exception"}

\* main(): "if success_count > 0:" and the merge under it
MergePdfs(fs, count, m) ==
    IF count > 0 /\ m = "written"
    THEN WriteFile(fs, CombinedPdf,
                   [pages |-> Appended(fs, MergeInputs(fs)), inputs |-> MergeInputs(fs)])
    ELSE fs

(***************************************************************************)
(* convert_to_pdf_html.py: install_requirements, convert_md_to_html and    *)
(* the second loop of main()                                               *)
(***************************************************************************)
NumPackages == 3    \* markdown, weasyprint, PyPDF2

\* subprocess.run(['pip3', 'install', package], check=True): pip3 exits with
\* status zero, or check=True raises CalledProcessError, or pip3 is missing
PipOutcomes == {"zero", "CalledProcessError", "FileNotFoundError"}

\* install_requirements(), pip being what pip3 gives for each package: the
\* exception that leaves it, "none" if it returns
install_requirements(pip) ==
    IF \E k \in 1..NumPackages : pip[k] = "FileNotFoundError"
    THEN "FileNotFoundError" ELSE "none"

\* md_file.replace('.md', '.html')
HtmlBeside(md_file) == Replace(md_file, MdExt, HtmlExt)

\* convert_md_to_html(md_file), html_content being what md.convert returned
convert_md_to_html(src, bad, out, md_file, html_content) ==
    IF md_file \notin src
    THEN [result |-> None, caught |-> "FileNotFoundError", out |-> out]
    ELSE IF md_file \in bad
    THEN [result |-> None, caught |-> "OSError", out |-> out]
    ELSE LET full_html == Format(PdfHtmlTemplate, html_content, TitleOf(md_file))
             html_file == HtmlBeside(md_file)
         IN  IF full_html.exc # "none"
             THEN [result |-> None, caught |-> full_html.exc, out |-> out]
             ELSE [result |-> html_file, caught |-> "none",
                   out |-> WriteFile(out, html_file, full_html.text)]

\* os.remove(path), a failure of which is passed over
RemoveFile(fs, path) == [x \in DOMAIN fs \ {path} |-> fs[x]]

RECURSIVE HtmlToPdfLoop(_, _, _)
\* main(): "for html_file in html_files", outs being what the two commands
\* give for each file; st holds pdf_output/, the HTML files, success_count and
\* the rounds so far
HtmlToPdfLoop(st, files, outs) ==
    IF files = <<>> THEN st
    ELSE LET html_file == Head(files)
             pdf_file  == PdfFileOfHtml(html_file)
             r         == convert_html_to_pdf(Head(outs)[1], Head(outs)[2])
             step      == [file |-> html_file, pdf_file |-> pdf_file, success |-> r.success]
         IN  HtmlToPdfLoop(
                 [pdf_fs |-> IF r.success
                             THEN WriteFile(st.pdf_fs, pdf_file, RenderedPdf(html_file))
                             ELSE st.pdf_fs,
                  out    |-> IF r.success THEN RemoveFile(st.out, html_file) ELSE st.out,
                  count  |-> IF r.success THEN st.count + 1 ELSE st.count,
                  steps  |-> Append(st.steps, step)],
                 Tail(files), Tail(outs))

(***************************************************************************)
(* The Markdown Transformer applied to bounded inputs                      *)
(***************************************************************************)
MaxHashes  == 5    \* '#' characters opening a header line
MaxTextLen == 3    \* characters of a header line's text
MaxSpanLen == 2    \* characters of a bold or italic span
MaxCodeLen == 4    \* characters between two code fences

RECURSIVE Texts(_, _)
\* the texts of at most n characters over an alphabet
Texts(alphabet, n) ==
    IF n = 0 THEN {<<>>}
    ELSE LET shorter == Texts(alphabet, n - 1)
         IN  shorter \cup {<<c>> \o t : c \in alphabet, t \in {u \in shorter : Len(u) = n - 1}}

HeaderAlphabet == {"a", " ", "*", BT, "#", ">"}
SpanAlphabet   == {"a", "b", " ", NL}
CodeAlphabet   == {"a", " ", "*", "#", NL}

Fence == <<BT, BT, BT>>

\* a line of k '#', a space and a text T, between plain lines
HeaderInputs ==
    {[kind |-> "header", k |-> k, A |-> T, B |-> <<>>,
      text |-> pre \o Repeat("#", k) \o <<" ">> \o T \o post] :
        k \in 1..MaxHashes, T \in Texts(HeaderAlphabet, MaxTextLen),
        pre \in {<<>>, <<"x", NL>>}, post \in {<<>>, <<NL, NL, "y">>}}

\* **A** and *B*
EmphInputs ==
    {[kind |-> "emph", k |-> 0, A |-> A, B |-> B,
      text |-> <<"*", "*">> \o A \o <<"*", "*", " ", "a", "n", "d", " ", "*">> \o B \o <<"*">>] :
        A \in Texts(SpanAlphabet, MaxSpanLen), B \in Texts(SpanAlphabet, MaxSpanLen)}

\* a region X between two triple-backtick fences
FenceInputs ==
    {[kind |-> "fence", k |-> 0, A |-> X, B |-> <<>>,
      text |-> pre \o Fence \o X \o Fence \o post] :
        X \in Texts(CodeAlphabet, MaxCodeLen),
        pre \in {<<>>, <<"x", NL, NL>>}, post \in {<<>>, <<NL, "y">>}}

MdInputs == HeaderInputs \cup EmphInputs \cup FenceInputs

MdInit ==
    /\ md \in MdInputs
    /\ html = <<>>
    /\ md_pc = "input"

Transform ==
    /\ md_pc = "input"
    /\ html' = simple_markdown_to_html(md.text)
    /\ md_pc' = "output"
    /\ UNCHANGED <<md, wrap_vars, html_vars, tool_log, pdf_vars, combined_content>>

MdIdle ==
    /\ md = [kind |-> "none", k |-> 0, A |-> <<>>, B |-> <<>>, text |-> <<>>]
    /\ html = <<>>
    /\ md_pc = "idle"

(***************************************************************************)
(* The Document Wrapper applied to bounded inputs                          *)
(***************************************************************************)
MaxFragLen  == 2    \* tokens of an HTML fragment
MaxTitleLen == 1    \* tokens of a title

Fragments == Texts({"<p>a</p>", "b", "{", "}"}, MaxFragLen)
Titles    == Texts({"t", "{", " "}, MaxTitleLen)

Template(which) == IF which = "html_only" THEN HtmlOnlyTemplate ELSE PdfHtmlTemplate

WrapInit ==
    /\ wrap_in \in [which : {"html_only", "pdf_html"}, content : Fragments, title : Titles]
    /\ wrapped = [exc |-> "none", text |-> <<>>]
    /\ wrap_pc = "input"

WrapIdle ==
    /\ wrap_in = [which |-> "none", content |-> <<>>, title |-> <<>>]
    /\ wrapped = [exc |-> "none", text |-> <<>>]
    /\ wrap_pc = "idle"

\* template = create_html_template(); template.format(content=..., title=...)
Wrap ==
    /\ wrap_pc = "input"
    /\ wrapped' = Format(Template(wrap_in.which), wrap_in.content, wrap_in.title)
    /\ wrap_pc' = "output"
    /\ UNCHANGED <<wrap_in, md_vars, html_vars, tool_log, pdf_vars, combined_content>>

(***************************************************************************)
(* convert_html_only.main() and direct calls of the Single-File Converter  *)
(***************************************************************************)
MaxFiles == 3    \* markdown files under src/
MaxCalls == 2    \* direct calls of convert_md_file_to_html
MaxTargets == 1  \* markdown files under src/ when the converter is called directly

Names == {<<"c", "h", "_", "2">>, <<"c", "h", "_", "1", "0">>}

Candidates == {[part |-> i, name |-> n] : i \in 0..(NumParts - 1), n \in Names}

Trees(lo, hi) ==
    {{MdPath(f.part, f.name) : f \in S} :
        S \in {T \in SUBSET Candidates : Cardinality(T) >= lo /\ Cardinality(T) <= hi}}

NoFiles == [x \in {} |-> <<>>]

\* what an earlier, successful conversion of md_file left at its output path
StaleDoc(md_file) == Filled(HtmlOnlyTemplate, <<"<p>", "old", "</p>">>, TitleOf(md_file))

StaleOutputs(paths) ==
    [x \in {OutputPath(f) : f \in paths} |->
        StaleDoc(CHOOSE f \in paths : OutputPath(f) = x)]

FsInit(lo, hi) ==
    /\ tree \in Trees(lo, hi)
    /\ unreadable \in SUBSET tree
    /\ out_fs \in {NoFiles, StaleOutputs(tree)}

MainInit(at) ==
    /\ pc = at
    /\ all_files = <<>>
    /\ idx = 1
    /\ success_count = 0
    /\ total_count = 0
    /\ calls = <<>>

HtmlIdle ==
    /\ tree = {}
    /\ unreadable = {}
    /\ out_fs = NoFiles
    /\ MainInit("idle")

ToolIdle == tool_log = <<>>

PdfIdle ==
    /\ pdf_fs = NoFiles
    /\ html_files = <<>>
    /\ steps = <<>>

CombinerIdle == combined_content = <<>>

\* a call of convert_md_file_to_html and what it left at the output path
CallRecord(md_file, r) ==
    [file    |-> md_file,
     result  |-> r.result,
     caught  |-> r.caught,
     written |-> OutputPath(md_file) \in DOMAIN r.out,
     doc     |-> IF OutputPath(md_file) \in DOMAIN r.out THEN r.out[OutputPath(md_file)]
                 ELSE <<>>]

\* main(): all_files collected from the seven partitions and sorted
Collect ==
    /\ pc = "start"
    /\ \E globbed \in GlobAll(tree, 0) :
          /\ all_files' = SortFiles(globbed)
          /\ total_count' = Len(globbed)
    /\ success_count' = 0
    /\ idx' = 1
    /\ pc' = "convert"
    /\ UNCHANGED <<fs_vars, calls, md_vars, wrap_vars, tool_log, pdf_vars, combined_content>>

\* main(): one round of "for md_file in all_files"
ConvertNext ==
    /\ pc = "convert"
    /\ idx <= Len(all_files)
    /\ LET md_file == all_files[idx]
           r       == convert_md_file_to_html(tree, unreadable, out_fs, md_file)
       IN  /\ out_fs' = r.out
           /\ success_count' = IF r.result # None THEN success_count + 1 ELSE success_count
           /\ calls' = Append(calls, CallRecord(md_file, r))
    /\ idx' = idx + 1
    /\ UNCHANGED <<tree, unreadable, pc, all_files, total_count, md_vars, wrap_vars, tool_log,
                   pdf_vars, combined_content>>

\* main(): the tally is printed and, if anything was converted, the combined
\* document is created; an exception of create_combined_html leaves main
Finish ==
    /\ pc = "convert"
    /\ idx > Len(all_files)
    /\ IF success_count > 0
       THEN LET c == create_combined_html(out_fs, unreadable)
            IN  /\ out_fs' = c.out
                /\ combined_content' = c.content
                /\ pc' = IF c.raised = "none" THEN "done" ELSE "raised"
       ELSE /\ pc' = "done"
            /\ UNCHANGED <<out_fs, combined_content>>
    /\ UNCHANGED <<tree, unreadable, all_files, idx, success_count, total_count, calls,
                   md_vars, wrap_vars, tool_log, pdf_vars>>

\* convert_md_file_to_html(md_file) called on a file of the tree
CallConvert ==
    /\ pc = "call"
    /\ Len(calls) < MaxCalls
    /\ \E md_file \in tree :
          LET r == convert_md_file_to_html(tree, unreadable, out_fs, md_file)
          IN  /\ out_fs' = r.out
              /\ calls' = Append(calls, CallRecord(md_file, r))
    /\ UNCHANGED <<tree, unreadable, main_vars, md_vars, wrap_vars, tool_log, pdf_vars,
                   combined_content>>

(***************************************************************************)
(* create_combined_html() called on already-converted documents            *)
(***************************************************************************)
MaxDocs == 2    \* documents under html_output/

CombFragments == {<<"<p>", "x", "</p>">>, <<"<h1>", "y", "</h1>", "<p>", "z", "</p>">>}

\* the words a reader sees in the modelled documents
TextTokens == {"x", "y", "z", "old"}

\* what the two pipelines are written to leave for a fragment
ConvertedDocs ==
    {Filled(T, frag, <<"t">>) : T \in {HtmlOnlyTemplate, PdfHtmlTemplate}, frag \in CombFragments}

HtmlCandidates == {HtmlPath(f.part, f.name) : f \in Candidates}

CombineInit ==
    /\ tree = {}
    /\ unreadable = {}
    /\ \E S \in SUBSET HtmlCandidates :
          /\ Cardinality(S) >= 1
          /\ Cardinality(S) <= MaxDocs
          /\ out_fs \in [S -> ConvertedDocs]
    /\ MainInit("combine")

\* documents whose <body> ... </body> marker is absent or not closed
MalformedDocs == {<<"<p>", "x", "</p>">>, <<"<body>", "<p>", "z", "</p>">>}

\* html_output/ holding well-formed and malformed documents, some unreadable
CombineAnyInit ==
    /\ tree = {}
    /\ \E S \in SUBSET HtmlCandidates :
          /\ Cardinality(S) >= 1
          /\ Cardinality(S) <= MaxDocs
          /\ out_fs \in [S -> ConvertedDocs \cup MalformedDocs]
          /\ unreadable \in SUBSET S
    /\ MainInit("combine")

\* create_combined_html()
Combine ==
    /\ pc = "combine"
    /\ LET c == create_combined_html(out_fs, unreadable)
       IN  /\ out_fs' = c.out
           /\ combined_content' = c.content
           /\ pc' = IF c.raised = "none" THEN "returned" ELSE "raised"
    /\ UNCHANGED <<tree, unreadable, all_files, idx, success_count, total_count, calls,
                   md_vars, wrap_vars, tool_log, pdf_vars>>

(***************************************************************************)
(* The external-tool chains run on one file after another                  *)
(***************************************************************************)
MaxRuns == 2    \* runs of a chain

\* convert_to_pdf_html: convert_html_to_pdf(html_file, pdf_file)
RunHtmlToPdf ==
    /\ Len(tool_log) < MaxRuns
    /\ \E wk \in Outcomes, wp \in Outcomes :
          tool_log' = Append(tool_log,
                             [chain |-> "html_to_pdf"] @@ convert_html_to_pdf(wk, wp))
    /\ UNCHANGED <<md_vars, wrap_vars, html_vars, pdf_vars, combined_content>>

\* convert_to_pdf.main: convert_md_to_pdf_wkhtmltopdf, then convert_md_to_pdf_basic
RunMdToPdf ==
    /\ Len(tool_log) < MaxRuns
    /\ \E o1 \in Outcomes, o2 \in Outcomes :
          tool_log' = Append(tool_log,
                             [chain |-> "md_to_pdf"] @@ convert_md_to_pdf(o1, o2))
    /\ UNCHANGED <<md_vars, wrap_vars, html_vars, pdf_vars, combined_content>>

(***************************************************************************)
(* convert_to_pdf.main()                                                   *)
(***************************************************************************)
MaxPdfFiles == 2    \* markdown files under src/ in a run of a PDF pipeline

\* what earlier runs and other programs may have left in pdf_output/
LeftOverNames == {<<"c", "h", "_", "1">> \o PdfExt, <<"c", "h", "_", "1">> \o HtmlExt,
                  CombinedPdfName}

LeftOver(f) ==
    IF f = CombinedPdfName
    THEN [pages |-> <<"earlier run">>, inputs |-> <<PdfJoin(<<"c", "h", "_", "1">> \o PdfExt)>>]
    ELSE [pages |-> <<"earlier run">>, inputs |-> <<>>]

PdfFsInit ==
    \E S \in SUBSET LeftOverNames : pdf_fs = [x \in {PdfJoin(f) : f \in S} |-> LeftOver(BaseName(x))]

PdfMainInit(at) ==
    /\ tree \in Trees(0, MaxPdfFiles)
    /\ unreadable \in SUBSET tree
    /\ out_fs = NoFiles
    /\ PdfFsInit
    /\ html_files = <<>>
    /\ steps = <<>>
    /\ MainInit(at)

\* one round of a per-file loop of a PDF pipeline
StepRecord(source, pdf_file, success) ==
    [file |-> source, pdf_file |-> pdf_file, success |-> success]

\* what running a command on a file can give: a file that cannot be read is
\* not rendered
OutcomesOn(file) == IF file \in unreadable THEN Outcomes \ {"zero"} ELSE Outcomes

\* main(): create_css_style(), makedirs, all_files collected and sorted
PdfCollect ==
    /\ pc = "pdf_start"
    /\ \E globbed \in GlobAll(tree, 0) :
          /\ all_files' = SortFiles(globbed)
          /\ total_count' = Len(globbed)
    /\ success_count' = 0
    /\ idx' = 1
    /\ pc' = "pdf_convert"
    /\ UNCHANGED <<fs_vars, calls, md_vars, wrap_vars, tool_log, pdf_vars, combined_content>>

\* a round that counts the file whether or not it was converted
PdfConvertNextCountingAll ==
    /\ pc = "pdf_convert"
    /\ idx <= Len(all_files)
    /\ LET md_file  == all_files[idx]
           pdf_file == PdfFileOfMd(md_file)
       IN  \E o1 \in OutcomesOn(md_file), o2 \in OutcomesOn(md_file) :
              LET r == convert_md_to_pdf(o1, o2)
              IN  /\ pdf_fs' = IF r.success
                               THEN WriteFile(pdf_fs, pdf_file, RenderedPdf(md_file))
                               ELSE pdf_fs
                  /\ success_count' = success_count + 1
                  /\ steps' = Append(steps, StepRecord(md_file, pdf_file, r.success))
    /\ idx' = idx + 1
    /\ UNCHANGED <<fs_vars, pc, all_files, total_count, calls, html_files, md_vars, wrap_vars,
                   tool_log, combined_content>>

\* main(): one round of "for md_file in all_files"
PdfConvertNext ==
    /\ pc = "pdf_convert"
    /\ idx <= Len(all_files)
    /\ LET md_file  == all_files[idx]
           pdf_file == PdfFileOfMd(md_file)
       IN  \E o1 \in OutcomesOn(md_file), o2 \in OutcomesOn(md_file) :
              LET r == convert_md_to_pdf(o1, o2)
              IN  /\ pdf_fs' = IF r.success
                               THEN WriteFile(pdf_fs, pdf_file, RenderedPdf(md_file))
                               ELSE pdf_fs
                  /\ success_count' = IF r.success THEN success_count + 1 ELSE success_count
                  /\ steps' = Append(steps, StepRecord(md_file, pdf_file, r.success))
    /\ idx' = idx + 1
    /\ UNCHANGED <<fs_vars, pc, all_files, total_count, calls, html_files, md_vars, wrap_vars,
                   tool_log, combined_content>>

\* main(): the tally is printed and, if anything was converted, the files of
\* pdf_output/ are merged
PdfFinish ==
    /\ pc = "pdf_convert"
    /\ idx > Len(all_files)
    /\ \E m \in MergeOutcomes : pdf_fs' = MergePdfs(pdf_fs, success_count, m)
    /\ pc' = "pdf_done"
    /\ UNCHANGED <<fs_vars, all_files, idx, success_count, total_count, calls, html_files,
                   steps, md_vars, wrap_vars, tool_log, combined_content>>

InitPdf == PdfMainInit("pdf_start") /\ MdIdle /\ WrapIdle /\ ToolIdle /\ CombinerIdle

NextPdf == PdfCollect \/ PdfConvertNext \/ PdfFinish

SpecPdf == InitPdf /\ [][NextPdf]_vars

(***************************************************************************)
(* convert_to_pdf_html.main()                                              *)
(***************************************************************************)
\* what markdown.Markdown(...).convert may return
LibraryFragments == {<<"<p>", "x", "</p>">>, <<"<h1>", "y", "</h1>">>}

\* main(): install_requirements(); its FileNotFoundError leaves main
Install ==
    /\ pc = "ph_start"
    /\ \E pip \in [1..NumPackages -> PipOutcomes] :
          pc' = IF install_requirements(pip) = "none" THEN "ph_collect" ELSE "aborted"
    /\ UNCHANGED <<fs_vars, all_files, idx, success_count, total_count, calls, md_vars,
                   wrap_vars, tool_log, pdf_vars, combined_content>>

\* main(): makedirs, all_files collected and sorted
PhCollect ==
    /\ pc = "ph_collect"
    /\ \E globbed \in GlobAll(tree, 0) :
          /\ all_files' = SortFiles(globbed)
          /\ total_count' = Len(globbed)
    /\ success_count' = 0
    /\ html_files' = <<>>
    /\ idx' = 1
    /\ pc' = "ph_md"
    /\ UNCHANGED <<fs_vars, calls, md_vars, wrap_vars, tool_log, pdf_fs, steps,
                   combined_content>>

\* main(): one round of "for md_file in all_files"
PhMdToHtmlNext ==
    /\ pc = "ph_md"
    /\ idx <= Len(all_files)
    /\ \E html_content \in LibraryFragments :
          LET md_file == all_files[idx]
              r       == convert_md_to_html(tree, unreadable, out_fs, md_file, html_content)
          IN  /\ out_fs' = r.out
              /\ html_files' = IF r.result # None THEN Append(html_files, r.result)
                               ELSE html_files
              /\ calls' = Append(calls, [file |-> md_file, result |-> r.result,
                                         caught |-> r.caught])
    /\ idx' = idx + 1
    /\ UNCHANGED <<tree, unreadable, pc, all_files, success_count, total_count, md_vars,
                   wrap_vars, tool_log, pdf_fs, steps, combined_content>>

\* main(): "for html_file in html_files", then the tally and, if anything was
\* converted, the merge of the files of pdf_output/
PhFinish ==
    /\ pc = "ph_md"
    /\ idx > Len(all_files)
    /\ \E outs \in [1..Len(html_files) -> Outcomes \X Outcomes], m \in MergeOutcomes :
          LET st == HtmlToPdfLoop([pdf_fs |-> pdf_fs, out |-> out_fs, count |-> success_count,
                                   steps |-> steps], html_files, outs)
          IN  /\ out_fs' = st.out
              /\ success_count' = st.count
              /\ steps' = st.steps
              /\ pdf_fs' = MergePdfs(st.pdf_fs, st.count, m)
    /\ pc' = "ph_done"
    /\ UNCHANGED <<tree, unreadable, all_files, idx, total_count, calls, html_files, md_vars,
                   wrap_vars, tool_log, combined_content>>

InitPdfHtml == PdfMainInit("ph_start") /\ MdIdle /\ WrapIdle /\ ToolIdle /\ CombinerIdle

NextPdfHtml == Install \/ PhCollect \/ PhMdToHtmlNext \/ PhFinish

SpecPdfHtml == InitPdfHtml /\ [][NextPdfHtml]_vars

InitMd == MdInit /\ WrapIdle /\ HtmlIdle /\ ToolIdle /\ PdfIdle /\ CombinerIdle

SpecMd == InitMd /\ [][Transform]_vars

InitWrap == WrapInit /\ MdIdle /\ HtmlIdle /\ ToolIdle /\ PdfIdle /\ CombinerIdle

SpecWrap == InitWrap /\ [][Wrap]_vars

InitHtml == FsInit(0, MaxFiles) /\ MainInit("start") /\ MdIdle /\ WrapIdle /\ ToolIdle /\ PdfIdle /\ CombinerIdle

NextHtml == Collect \/ ConvertNext \/ Finish

SpecHtml == InitHtml /\ [][NextHtml]_vars

InitConvert == FsInit(1, MaxTargets) /\ MainInit("call") /\ MdIdle /\ WrapIdle /\ ToolIdle /\ PdfIdle /\ CombinerIdle

SpecConvert == InitConvert /\ [][CallConvert]_vars

InitCombine == CombineInit /\ MdIdle /\ WrapIdle /\ ToolIdle /\ PdfIdle /\ CombinerIdle

SpecCombine == InitCombine /\ [][Combine]_vars

InitCombineAny == CombineAnyInit /\ MdIdle /\ WrapIdle /\ ToolIdle /\ PdfIdle /\ CombinerIdle

SpecCombineAny == InitCombineAny /\ [][Combine]_vars

InitTool == ToolIdle /\ HtmlIdle /\ MdIdle /\ WrapIdle /\ PdfIdle /\ CombinerIdle

NextTool == RunHtmlToPdf \/ RunMdToPdf

SpecTool == InitTool /\ [][NextTool]_vars

(***************************************************************************)
(* A run of any of the three pipelines                                     *)
(***************************************************************************)
InitBatch == InitHtml \/ InitPdf \/ InitPdfHtml

NextBatch == NextHtml \/ NextPdf \/ NextPdfHtml

SpecBatch == InitBatch /\ [][NextBatch]_vars

(***************************************************************************)
(* Properties of the Markdown Transformer                                  *)
(***************************************************************************)
\* x occurs in s and y occurs after the end of that occurrence
FollowedBy(s, x, y) ==
    \E i \in 1..(Len(s) - Len(x) + 1) : \E j \in (i + Len(x))..(Len(s) - Len(y) + 1) :
        /\ SubSeq(s, i, i + Len(x) - 1) = x
        /\ SubSeq(s, j, j + Len(y) - 1) = y

HasChar(t, c) == \E i \in 1..Len(t) : t[i] = c

Transformed(kind) == md_pc = "output" /\ md.kind = kind

HeadingTag == <<"<", "h">>

\* C3 as stated: the text between two triple-backtick fences appears verbatim
\* inside one <pre><code>...</code></pre> element, blank lines included.
C3_FencedVerbatim ==
    Transformed("fence") => Contains(html, PreCodeOpen \o md.A \o PreCodeClose)

C5_BoldThenItalic ==
    Transformed("emph") =>
        /\ FollowedBy(html, StrongOpen \o md.A \o StrongClose, EmOpen \o md.B \o EmClose)
        /\ Count(html, EmOpen) = 1

\* C5 amended: the same, for A and B that are also free of line breaks.
C5_BoldThenItalicOneLine ==
    (Transformed("emph") /\ ~HasChar(md.A, NL) /\ ~HasChar(md.B, NL)) =>
        /\ FollowedBy(html, StrongOpen \o md.A \o StrongClose, EmOpen \o md.B \o EmClose)
        /\ Count(html, EmOpen) = 1

C5_Witness ==
    /\ Transformed("emph")
    /\ md.A = <<"a", "b">>
    /\ md.B = <<"b", " ">>
    /\ Contains(html, StrongOpen \o <<"a", "b">> \o StrongClose)
    /\ Contains(html, EmOpen \o <<"b", " ">> \o EmClose)

(***************************************************************************)
(* Properties of the Document Wrapper                                      *)
(***************************************************************************)
\* C10 as stated: for every fragment and title, filling the template does not
\* fail and gives the template with only the title and content regions replaced.
C10_WrapperFills ==
    wrap_pc = "output" =>
        /\ wrapped.exc = "none"
        /\ wrapped.text = Filled(Template(wrap_in.which), wrap_in.content, wrap_in.title)

(***************************************************************************)
(* Properties of the File Collector, the Single-File Converter, the        *)
(* Combiner and main() of convert_html_only.py                             *)
(***************************************************************************)
\* the partition a source file lies in
PartOfFile(x) == CHOOSE i \in 0..(NumParts - 1) : \E n \in Names : x = MdPath(i, n)

Collected == pc \in {"convert", "done", "raised"}

Ended == pc \in {"done", "raised"}

\* C11 as stated: no two conversion steps of a run write the same output path.
C11_OutputPathsDistinct ==
    \A i \in DOMAIN steps : \A j \in DOMAIN steps :
        (i # j /\ steps[i].success /\ steps[j].success) => steps[i].pdf_file # steps[j].pdf_file

SectionOpen(md_file) == <<"<div id=">> \o SectionKey(OutputPath(md_file)) \o <<">">>

\* C1 as stated: with three files found and exactly one of them unreadable, the
\* batch converts the other two, the tally is 2/3 and the combined document has
\* sections for exactly those two files.
C1_PartialFailure ==
    (Ended /\ total_count = 3 /\ Cardinality(unreadable) = 1) =>
        /\ success_count = 2
        /\ pc = "done"
        /\ CombinedFile \in DOMAIN out_fs
        /\ \A f \in tree :
              Contains(out_fs[CombinedFile], SectionOpen(f)) <=> f \notin unreadable

\* C2: the collected list is a permutation of the files under part0 .. part6,
\* ordered by partition index and, within a partition, by path.
C2_CollectorSorted ==
    Collected =>
        /\ Len(all_files) = Cardinality(tree)
        /\ Range(all_files) = tree
        /\ \A i \in 1..Len(all_files) : \A j \in 1..Len(all_files) :
              i < j =>
                 \/ PartOfFile(all_files[i]) < PartOfFile(all_files[j])
                 \/ /\ PartOfFile(all_files[i]) = PartOfFile(all_files[j])
                    /\ StrLess(all_files[i], all_files[j])

C2_Witness ==
    /\ Collected
    /\ all_files = << MdPath(0, <<"c", "h", "_", "1", "0">>),
                      MdPath(0, <<"c", "h", "_", "2">>),
                      MdPath(2, <<"c", "h", "_", "1", "0">>) >>

VisibleText(doc) == SelectSeq(doc, LAMBDA t : t \in TextTokens)

RECURSIVE VisibleTexts(_, _)
VisibleTexts(out, files) ==
    IF files = <<>> THEN <<>>
    ELSE VisibleText(out[Head(files)]) \o VisibleTexts(out, Tail(files))

\* C6 as stated: combining already-converted documents gives a combined document
\* whose visible text, title page and table of contents aside, is the documents'
\* visible text in source order.
C6_CombineRoundTrip ==
    pc \in {"returned", "raised"} =>
        /\ pc = "returned"
        /\ CombinedFile \in DOMAIN out_fs
        /\ VisibleText(out_fs[CombinedFile])
              = VisibleTexts(out_fs, CombinerFiles([x \in DOMAIN out_fs \ {CombinedFile}
                                                      |-> out_fs[x]]))

Files(records) == [i \in DOMAIN records |-> records[i].file]

SuccessfulCalls == Cardinality({i \in DOMAIN calls : calls[i].result # None})

SuccessfulSteps == Cardinality({i \in DOMAIN steps : steps[i].success})

\* C13: in each pipeline success_count stays between 0 and total_count and counts
\* each converted file once; no exception leaves a run once the files are
\* collected; at the tally every discovered file has been processed, total_count
\* is the number of discovered files and success_count the number of files
\* whose output was produced.
C13_BatchTally ==
    /\ 0 <= success_count /\ success_count <= total_count
    /\ pc # "raised"
    /\ pc \in {"convert", "done"} =>
          /\ success_count = SuccessfulCalls
          /\ Files(calls) = SubSeq(all_files, 1, idx - 1)
    /\ pc \in {"pdf_convert", "pdf_done"} =>
          /\ success_count = SuccessfulSteps
          /\ Files(steps) = SubSeq(all_files, 1, idx - 1)
    /\ pc \in {"ph_md", "ph_done"} =>
          /\ success_count = SuccessfulSteps
          /\ Files(calls) = SubSeq(all_files, 1, idx - 1)
    /\ pc \in {"done", "pdf_done", "ph_done"} =>
          /\ idx = Len(all_files) + 1
          /\ Range(all_files) = tree
          /\ total_count = Cardinality(tree)
    /\ pc = "ph_done" => Files(steps) = html_files

C13_Witness ==
    /\ pc = "pdf_done"
    /\ total_count = 2
    /\ success_count = 1
    /\ ~steps[1].success
    /\ steps[2].success
    /\ PdfJoin(<<"c", "h", "_", "2">> \o PdfExt) \in DOMAIN pdf_fs

\* the merger wrote pdf_output/combined_all_parts.pdf in the step
MergeWritten ==
    /\ CombinedPdf \in DOMAIN pdf_fs'
    /\ CombinedPdf \in DOMAIN pdf_fs => pdf_fs'[CombinedPdf] # pdf_fs[CombinedPdf]

\* the files of pdf_output/ that end in .pdf, the merged file aside
ListedPdfs(fs) ==
    {x \in DOMAIN fs : EndsWith(x, PdfExt) /\ x # CombinedPdf}

\* C16: at the end of a run of a PDF pipeline, with success_count = 0 pdf_output/
\* is left as it was; a merged file is written only with success_count > 0, and
\* its inputs are the .pdf files present in pdf_output/ at that time, whoever
\* left them, without the merged file itself, in the order of their names.
C16_MergeInputs ==
    [][(pc \in {"pdf_convert", "ph_md"} /\ pc' \in {"pdf_done", "ph_done"}) =>
          /\ success_count' = 0 => pdf_fs' = pdf_fs
          /\ MergeWritten =>
                LET merged == pdf_fs'[CombinedPdf]
                IN  /\ success_count' > 0
                    /\ Range(merged.inputs) = ListedPdfs(pdf_fs')
                    /\ Len(merged.inputs) = Cardinality(ListedPdfs(pdf_fs'))
                    /\ CombinedPdf \notin Range(merged.inputs)
                    /\ \A i \in DOMAIN merged.inputs : \A j \in DOMAIN merged.inputs :
                          i < j => StrLess(merged.inputs[i], merged.inputs[j])
                    /\ merged.pages = Appended(pdf_fs', merged.inputs)
                    /\ \A x \in DOMAIN pdf_fs' \ {CombinedPdf} :
                          x \in DOMAIN pdf_fs /\ pdf_fs'[x] = pdf_fs[x]
      ]_vars

\* a merge that takes in a file left by an earlier run, leaves out the earlier
\* merged file and orders part1's ch_10 before part0's ch_2
C16_Witness ==
    /\ pc = "pdf_done"
    /\ all_files = <<MdPath(0, <<"c", "h", "_", "2">>), MdPath(1, <<"c", "h", "_", "1", "0">>)>>
    /\ success_count = 2
    /\ CombinedPdf \in DOMAIN pdf_fs
    /\ pdf_fs[CombinedPdf].inputs = <<PdfJoin(<<"c", "h", "_", "1">> \o PdfExt),
                                      PdfJoin(<<"c", "h", "_", "1", "0">> \o PdfExt),
                                      PdfJoin(<<"c", "h", "_", "2">> \o PdfExt)>>
    /\ pdf_fs[CombinedPdf].pages = <<"earlier run", all_files[2], all_files[1]>>

Combined == pc \in {"returned", "raised"}

RECURSIVE KeysAfter(_, _)
\* the keys that follow the occurrences of a marker in a text, each key ending
\* at the next ">"
KeysAfter(text, marker) ==
    LET i == Find(text, <<marker>>, 1)
    IN  IF i = 0 THEN <<>>
        ELSE LET e == Find(text, <<">">>, i + 1)
             IN  <<SubSeq(text, i + 1, e - 1)>> \o KeysAfter(Drop(text, e), marker)

TocKeys(text) == KeysAfter(text, "<li><a href=#")

SectionIds(text) == KeysAfter(text, "<div id=")

\* C12 as stated: in the combined content every anchor of the table of contents
\* is the id of exactly one section, every section has exactly one entry, and the
\* entries stand in the order of the sections.
C12_TocMatchesSections ==
    Combined =>
        /\ TocKeys(combined_content) = SectionIds(combined_content)
        /\ \A i \in DOMAIN SectionIds(combined_content) :
              \A j \in DOMAIN SectionIds(combined_content) :
                 i # j => SectionIds(combined_content)[i] # SectionIds(combined_content)[j]

\* the files create_combined_html found, before it wrote anything
FoundFiles == CombinerFiles([x \in DOMAIN out_fs \ {CombinedFile} |-> out_fs[x]])

\* those of them that can be read and hold a <body> ... </body> marker
WithBody(files) ==
    SelectSeq(files, LAMBDA f : f \notin unreadable /\ BodyMatch(out_fs[f]) # <<0, 0>>)

\* C14 as stated: create_combined_html returns after writing the combined
\* document to its fixed path; the document has one section for each input file
\* that can be read and whose body marker matched, in collector order, each
\* followed by a page break (the title page has one more).
C14_CombinerOutput ==
    Combined =>
        /\ pc = "returned"
        /\ CombinedFile \in DOMAIN out_fs
        /\ LET doc      == out_fs[CombinedFile]
               expected == WithBody(FoundFiles)
           IN  /\ SectionIds(doc) = [i \in DOMAIN expected |-> SectionKey(expected[i])]
               /\ Count(doc, PageBreak) = Len(expected) + 1

C9_ConverterOutcome ==
    \A i \in DOMAIN calls :
        /\ \/ calls[i].result = OutputPath(calls[i].file) /\ calls[i].written
           \/ calls[i].result = None /\ calls[i].caught # "none"
        /\ calls[i].file \in tree \ unreadable => calls[i].result = OutputPath(calls[i].file)

(***************************************************************************)
(* Properties of the External Tool Invoker                                 *)
(***************************************************************************)
Primary(chain)  == IF chain = "html_to_pdf" THEN "wkhtmltopdf" ELSE "pandoc+wkhtmltopdf"
Fallback(chain) == IF chain = "html_to_pdf" THEN "weasyprint" ELSE "pandoc"

\* C8: the primary command is attempted first; when it exits non-zero the
\* fallback is attempted next; success is reported exactly when a command of the
\* chain exited with status zero; nothing is raised to the caller.
C8_FallbackChain ==
    \A i \in DOMAIN tool_log :
        LET r == tool_log[i]
        IN  /\ r.attempts[1].cmd = Primary(r.chain)
            /\ r.attempts[1].outcome = "nonzero" =>
                  Len(r.attempts) = 2 /\ r.attempts[2].cmd = Fallback(r.chain)
            /\ r.attempts[1].outcome = "zero" => Len(r.attempts) = 1
            /\ r.success <=> \E k \in DOMAIN r.attempts : r.attempts[k].outcome = "zero"
            /\ ~r.raised

C8_Witness ==
    \E i \in DOMAIN tool_log :
        /\ tool_log[i].chain = "html_to_pdf"
        /\ Len(tool_log[i].attempts) = 2
        /\ tool_log[i].attempts[1].outcome = "nonzero"
        /\ tool_log[i].attempts[2].outcome = "zero"
        /\ tool_log[i].success

\* C15: convert_html_to_pdf attempts weasyprint exactly when wkhtmltopdf ran and
\* exited non-zero, and returns False without attempting it when starting
\* wkhtmltopdf raised; convert_to_pdf.main attempts basic pandoc after every
\* failure of the primary converter, an exception as well as a non-zero exit.
C15_MissingToolFallback ==
    \A i \in DOMAIN tool_log :
        LET r     == tool_log[i]
            first == r.attempts[1].outcome
        IN  /\ r.chain = "html_to_pdf" =>
                  /\ Len(r.attempts) = 2 <=> first = "nonzero"
                  /\ first \in {"FileNotFoundError", "Exception"} => ~r.success
            /\ r.chain = "md_to_pdf" =>
                  /\ Len(r.attempts) = 2 <=> first # "zero"
                  /\ Len(r.attempts) = 2 => r.attempts[2].cmd = "pandoc"

C15_Witness ==
    \E i \in DOMAIN tool_log : \E j \in DOMAIN tool_log :
        /\ tool_log[i].chain = "html_to_pdf"
        /\ tool_log[i].attempts = <<Attempt("wkhtmltopdf", "FileNotFoundError")>>
        /\ ~tool_log[i].success
        /\ tool_log[j].chain = "md_to_pdf"
        /\ tool_log[j].attempts[1].outcome = "Exception"
        /\ tool_log[j].attempts[2] = Attempt("pandoc", "zero")
        /\ tool_log[j].success

====
